---- MODULE Spec2Model ----
(***************************************************************************)
(* loop4r_leds (Source/Main.cpp): the OSC -> FCB1010 LED bridge.           *)
(*                                                                         *)
(* The class loop4r_ledsApplication is modelled as a state machine.  The   *)
(* member functions are operators over a record `s' that holds the         *)
(* members of the object; an action evaluates the whole callback           *)
(* (timerCallback, oscMessageReceived, executeCommand) on the current      *)
(* record and commits the result.  Everything runs on the JUCE message     *)
(* thread, so a callback is one atomic step.                               *)
(*                                                                         *)
(* The members heartbeat_, ledCount_, engineId_ and pinged_ have no        *)
(* initialiser and the constructor does not assign them: their first       *)
(* value is indeterminate and Init chooses it.  The strings hostUrl_ and   *)
(* version_ are written and never read; they are left out.                 *)
(*                                                                         *)
(* snd_rawmidi_write is recorded as an attempted write together with       *)
(* whether a handle was open; what the library does with a null handle     *)
(* is outside this file's source.                                          *)
(***************************************************************************)
EXTENDS Integers, Sequences, FiniteSets, TLC

----------------------------------------------------------------------------
(* Program constants *)

NUM_LED_PEDALS == 10
UP == 10
DOWN == 11
TIMER_OFF == 0
TIMER_FASTBLINK == 1
TIMER_BLINK == 3
Dark == 0
Light == 1
Blink == 2
FastBlink == 3
CC_LED_ON == 106
CC_LED_OFF == 107
CC_TENS == 113
CC_ONES == 114
CC_ALIVE == 23
HeartbeatReload == 5
DeadBelow == -5
DefaultSendPort == 9000
DefaultReceivePort == 9001
Unbound == -1

----------------------------------------------------------------------------
(* Bounds of the model *)

\* largest LED count a /pingack or /heartbeat reports (counts are -1..MaxCount)
MaxCount == 2
\* engine ids carried by messages are 1..MaxId
MaxId == 2
\* /led messages of a run over the /led payloads carry the indexes
\* -1..MaxLedArg
MaxLedArg == 0
\* blink timer seeds carried by /led are 0..MaxSeed
MaxSeed == 1
\* state integers carried by /led are 0..MaxStateArg
MaxStateArg == 3
\* indeterminate initial heartbeat_ is one of -MaxGarbage, 0, MaxGarbage
MaxGarbage == 6
\* at most this many LEDs are appended to a registry between two rebuilds
MaxGrown == 2
\* ticks counted by the observer of a silent run
MaxSilent == 12
\* pedal and slot numbers given to pedalIndex and ledNumber are 0..MaxSlot
MaxSlot == 11
\* loop indexes carried by /display in a run over the /display payloads are
\* 0..MaxLoop
MaxLoop == 99

----------------------------------------------------------------------------
VARIABLES
    scope,               \* which part of the input space the run explores
    grown,               \* LEDs appended since the registry was last built
    pc,                  \* "init": inside initialise(); "run": timer started
    leds,                \* Array<LED> leds_
    ledCount,            \* ledCount_
    engineId,            \* engineId_
    heartbeat,           \* heartbeat_
    heartbeatOn,         \* heartbeatOn_
    pinged,              \* pinged_
    currentSendPort,     \* currentSendPort_
    currentReceivePort,  \* currentReceivePort_
    oscSendPort,         \* oscSendPort_
    oscReceivePort,      \* oscReceivePort_
    midiOutName,         \* midiOutName_ ("" when not configured)
    midiOut,             \* midiOut_ != nullptr
    listening,           \* oscReceiver is bound and delivers messages
    oob,                 \* the last callback accessed leds_ outside the array
    midiWrites,          \* snd_rawmidi_write calls of the last callback
    oscSent,             \* oscSender.send calls of the last callback
    last,                \* the path the last callback took
    silent,              \* ticks since a fresh connect with no message since
    probes,              \* /heartbeat pings sent during that silent run
    tornAt,              \* value of silent at which the link was torn down
    blinkHist,           \* per registry position: ticks since its rule fired
    upd,                 \* observer of the last Blink LED-update
    wiring               \* arguments and results of pedalIndex / ledNumber

progVars == <<leds, ledCount, engineId, heartbeat, heartbeatOn, pinged,
              currentSendPort, currentReceivePort, oscSendPort,
              oscReceivePort, midiOutName, midiOut, listening, oob>>
vars == <<scope, grown, pc, progVars, midiWrites, oscSent, last, silent, probes, tornAt,
          blinkHist, upd, wiring>>

----------------------------------------------------------------------------
(* The object as a record.  The fields from oob on are per-callback outputs *)
(* and path observations; they start empty in every callback.              *)

Self ==
    [leds |-> leds, ledCount |-> ledCount, engineId |-> engineId,
     heartbeat |-> heartbeat, heartbeatOn |-> heartbeatOn, pinged |-> pinged,
     currentSendPort |-> currentSendPort,
     currentReceivePort |-> currentReceivePort,
     oscSendPort |-> oscSendPort, oscReceivePort |-> oscReceivePort,
     midiOutName |-> midiOutName, midiOut |-> midiOut,
     listening |-> listening, oob |-> FALSE,
     midiWrites |-> <<>>, oscSent |-> <<>>, path |-> "none",
     fired |-> {}, touched |-> {}, rebuilt |-> FALSE, animated |-> FALSE,
     opened |-> FALSE, fresh |-> FALSE, torn |-> FALSE]

Path(s, p) == [s EXCEPT !.path = p]

\* struct LED {index_, on_, timer_, state_}
NewLed(i) == [index |-> i, on |-> FALSE, timer |-> TIMER_OFF, state |-> Dark]

\* the constructor's loop: ten cleared LEDs
InitialLeds == [p \in 1..NUM_LED_PEDALS |-> NewLed(p - 1)]

----------------------------------------------------------------------------
(* Control-surface writer *)

pedalIndexShifted(controllerValue) ==
    IF controllerValue \in 1..9 THEN controllerValue - 1
    ELSE IF controllerValue = 0 THEN 9
    ELSE IF controllerValue = 10 THEN DOWN
    ELSE IF controllerValue = 11 THEN UP
    ELSE controllerValue
pedalIndex(controllerValue) ==
    IF controllerValue \in 1..9 THEN controllerValue - 1
    ELSE IF controllerValue = 0 THEN 9
    ELSE IF controllerValue = 10 THEN UP
    ELSE IF controllerValue = 11 THEN DOWN
    ELSE controllerValue

\* returns uint8
ledNumber(pedalIdx) ==
    IF pedalIdx \in 0..8 THEN pedalIdx + 1
    ELSE IF pedalIdx = 9 THEN 0
    ELSE pedalIdx % 256

\* snd_rawmidi_write(midiOut_, {MIDI_CMD_CONTROL, cc, val}); `by' is the
\* registry position of the LED the write is issued for (-1: none)
RawMidiWrite(s, cc, val, by) ==
    [s EXCEPT !.midiWrites =
        Append(@, [cc |-> cc, val |-> val, by |-> by, open |-> s.midiOut])]

InRegistry(s, i) == i >= 0 /\ i < Len(s.leds)

\* leds_.getReference(i).on_ = b; outside the array the store lands
\* outside the registry
SetOn(s, i, b) ==
    IF InRegistry(s, i) THEN [s EXCEPT !.leds[i + 1].on = b]
    ELSE [s EXCEPT !.oob = TRUE]

ledOn(s, pedalIdx, by) ==
    RawMidiWrite(SetOn(s, pedalIdx, TRUE), CC_LED_ON, ledNumber(pedalIdx), by)

ledOff(s, pedalIdx, by) ==
    RawMidiWrite(SetOn(s, pedalIdx, FALSE), CC_LED_OFF, ledNumber(pedalIdx), by)

\* updateLedState(LED& led), led being the entry at position p
updateLedState(s, p) ==
    LET led == s.leds[p + 1]
    IN RawMidiWrite(s, IF led.on THEN CC_LED_ON ELSE CC_LED_OFF,
                    ledNumber(led.index), p)

RECURSIVE UpdateLedsFrom(_, _)
UpdateLedsFrom(s, p) ==
    IF p >= Len(s.leds) THEN s
    ELSE UpdateLedsFrom(updateLedState(s, p), p + 1)

updateLeds(s) == UpdateLedsFrom(s, 0)

\* the loop "for i in 0..NUM_LED_PEDALS-1: ledOff(i)" run after a
\* successful snd_rawmidi_open
RECURSIVE PedalLedsOffFrom(_, _)
PedalLedsOffFrom(s, i) ==
    IF i >= NUM_LED_PEDALS THEN s
    ELSE PedalLedsOffFrom(ledOff(s, i, i), i + 1)

OpenMidiOutSkipped(s, openOk) == s
OpenMidiOut(s, openOk) ==
    IF openOk
    THEN PedalLedsOffFrom([s EXCEPT !.midiOut = TRUE, !.opened = TRUE], 0)
    ELSE s

----------------------------------------------------------------------------
(* OSC output *)

OscSend(s, what) == [s EXCEPT !.oscSent = Append(@, what)]

getCurrentState(s, index) ==
    OscSend(OscSend(s, "/loop4r/leds"), "/loop4r/display")

registerAutoUpdates(s, unreg) ==
    IF unreg THEN OscSend(s, "/loop4r/unregister_auto_update")
    ELSE OscSend(s, "/loop4r/register_auto_update")

----------------------------------------------------------------------------
(* Connection manager *)

isValidOscPort(port) == port > 0 /\ port < 65536

\* connect(): bindOk is the outcome of oscReceiver.connect
connect(s, bindOk) ==
    IF ~isValidOscPort(s.oscReceivePort) THEN s
    ELSE IF bindOk
         THEN [s EXCEPT !.currentReceivePort = s.oscReceivePort,
                        !.listening = TRUE]
         ELSE [s EXCEPT !.listening = FALSE]

SendPortPositive(s) == s.currentSendPort > 0
BothPortsPositive(s) == s.currentSendPort > 0 /\ s.currentReceivePort > 0

\* tryToConnectOsc(): the record after the call; its return value is
\* BothPortsPositive of that record
tryToConnectOsc(s, sendOk, bindOk) ==
    LET s1 == IF s.currentSendPort < 0 /\ sendOk
              THEN [s EXCEPT !.currentSendPort = s.oscSendPort]
              ELSE s
        s2 == IF s1.currentReceivePort < 0 THEN connect(s1, bindOk) ELSE s1
    IN IF BothPortsPositive(s2) /\ ~s2.pinged
       THEN OscSend(s2, "/loop4r/ping /pingack")
       ELSE s2

----------------------------------------------------------------------------
(* Scheduler tick *)

BlinkReloadShort(state) == IF state = Blink THEN TIMER_BLINK - 1 ELSE TIMER_OFF
BlinkReload(state) == IF state = Blink THEN TIMER_BLINK ELSE TIMER_FASTBLINK

TimerBelowZero(timer) == timer < 0
TimerExpired(timer) == timer <= 0

\* the body of the loop over leds_ for the entry at position p
AnimateLed(s, p) ==
    LET led == s.leds[p + 1]
    IN IF led.state = Blink \/ led.state = FastBlink
       THEN IF TimerExpired(led.timer)
            THEN LET s1 == IF led.on THEN ledOff(s, led.index, p)
                           ELSE ledOn(s, led.index, p)
                 IN [s1 EXCEPT !.leds[p + 1].timer = BlinkReload(led.state),
                               !.fired = @ \cup {p}]
            ELSE [s EXCEPT !.leds[p + 1].timer = @ - 1]
       ELSE s

RECURSIVE AnimateFrom(_, _)
AnimateFrom(s, p) ==
    IF p >= Len(s.leds) THEN s
    ELSE AnimateFrom(AnimateLed(s, p), p + 1)

AnimateNoLed(s) == [s EXCEPT !.animated = TRUE]
AnimateLeds(s) == AnimateFrom([s EXCEPT !.animated = TRUE], 0)

PingDueEarly(hb) == hb <= 1
PingDue(hb) == hb = 0

LinkDead(hb) == hb < DeadBelow

\* --heartbeat_
DecrementTwice(hb) == hb - 2
Decrement(hb) == hb - 1

\* the heartbeat part of the else branch of timerCallback
HeartbeatStep(s, sendOk, bindOk) ==
    IF PingDue(s.heartbeat)
    THEN Path(OscSend(s, "/loop4r/ping /heartbeat"), "tick_ping")
    ELSE IF LinkDead(s.heartbeat)
    THEN LET s1 == [s EXCEPT !.currentReceivePort = Unbound,
                             !.currentSendPort = Unbound,
                             !.torn = TRUE]
             s2 == tryToConnectOsc(s1, sendOk, bindOk)
         IN IF BothPortsPositive(s2)
            THEN Path([s2 EXCEPT !.heartbeat = HeartbeatReload,
                                 !.fresh = TRUE], "tick_reconnected")
            ELSE Path(s2, "tick_torn")
    ELSE Path([s EXCEPT !.heartbeat = Decrement(@)], "tick_dec")

timerCallback(s, openOk, sendOk, bindOk) ==
    LET s1 == IF s.midiOutName # "" /\ ~s.midiOut
              THEN OpenMidiOut(s, openOk)
              ELSE s
    IN IF s1.currentReceivePort < 0 \/ s1.currentSendPort < 0
       THEN LET s2 == tryToConnectOsc(s1, sendOk, bindOk)
            IN IF BothPortsPositive(s2)
               THEN Path([s2 EXCEPT !.heartbeat = HeartbeatReload,
                                    !.fresh = TRUE], "tick_connected")
               ELSE Path(s2, "tick_unconnected")
       ELSE AnimateLeds(HeartbeatStep(s1, sendOk, bindOk))

----------------------------------------------------------------------------
(* OSC messages: a message is its sequence of arguments *)

I(v) == [t |-> "i", v |-> v]
S == [t |-> "s", v |-> 0]
F == [t |-> "f", v |-> 0]

\* arg->isInt32() for the argument at 0-based position k of the message
IsInt32At(msg, k) == k < Len(msg) /\ msg[k + 1].t = "i"

\* *arg after k increments from message.begin(); past message.end() the
\* read is outside the argument array and yields ph[k]
ArgAt(msg, ph, k) == IF k < Len(msg) THEN msg[k + 1] ELSE ph[k]

\* C++ integer division and remainder (truncation toward zero), b > 0
CDiv(a, b) == IF a >= 0 THEN a \div b ELSE -((-a) \div b)
CRem(a, b) == a - b * CDiv(a, b)
UChar(v) == v % 256

----------------------------------------------------------------------------
(* Session tracker *)

AddLedAfter(s, i) == [s EXCEPT !.leds = Append(@, NewLed(i + 1))]
AddLed(s, i) == [s EXCEPT !.leds = Append(@, NewLed(i))]

\* for (i = 0; i < ledCount_; i++) { leds_.add; registerAutoUpdates(false);
\*                                   getCurrentState(i); updateLeds(); }
RECURSIVE RebuildFrom(_, _)
RebuildFrom(s, i) ==
    IF i >= s.ledCount THEN s
    ELSE RebuildFrom(
            updateLeds(getCurrentState(
                registerAutoUpdates(AddLed(s, i), FALSE), i)),
            i + 1)

\* leds_.clear() followed by the loop
RebuildWithoutClear(s) ==
    RebuildFrom([s EXCEPT !.rebuilt = TRUE], 0)
RebuildRegistry(s) ==
    RebuildFrom([s EXCEPT !.leds = <<>>, !.rebuilt = TRUE], 0)

\* for (i = ledCount_; i < numleds; i++) { registerAutoUpdates(false);
\*                                         leds_.add; updateLeds(); }
RECURSIVE AppendFrom(_, _, _)
AppendFrom(s, i, numleds) ==
    IF i >= numleds THEN s
    ELSE AppendFrom(updateLeds(AddLed(registerAutoUpdates(s, FALSE), i)),
                    i + 1, numleds)

handlePingAckMessage(s, msg) ==
    IF Len(msg) = 0 THEN Path(s, "empty")
    ELSE LET s1 == [s EXCEPT
                      !.ledCount = IF IsInt32At(msg, 2) THEN msg[3].v ELSE @,
                      !.engineId = IF IsInt32At(msg, 3) THEN msg[4].v ELSE @]
         IN IF Len(msg) > 4
            THEN Path(s1, "pingack_toomany")
            ELSE LET s2 == IF s1.ledCount > 0
                           THEN Path(RebuildRegistry(s1), "pingack_rebuild")
                           ELSE Path(s1, "pingack_keep")
                 IN [s2 EXCEPT !.heartbeat = HeartbeatReload]

\* the write to the alive indicator and the flip of heartbeatOn_
AliveBlinkStuck(s) ==
    RawMidiWrite(s, IF s.heartbeatOn THEN CC_LED_OFF ELSE CC_LED_ON,
                 CC_ALIVE, -1)

AliveBlink(s) ==
    [RawMidiWrite(s, IF s.heartbeatOn THEN CC_LED_OFF ELSE CC_LED_ON,
                  CC_ALIVE, -1)
        EXCEPT !.heartbeatOn = ~s.heartbeatOn]

handleHeartbeatMessage(s, msg) ==
    IF Len(msg) = 0 THEN Path(s, "empty")
    ELSE LET numleds == IF IsInt32At(msg, 2) THEN msg[3].v ELSE 0
             uid == IF IsInt32At(msg, 3) THEN msg[4].v ELSE s.engineId
             s1 == IF uid # s.engineId
                   THEN IF numleds > 0
                        THEN Path(RebuildRegistry(
                                    [s EXCEPT !.ledCount = numleds]),
                                  "hb_rebuild")
                        ELSE Path(s, "hb_changed")
                   ELSE IF s.ledCount # numleds
                        THEN Path([AppendFrom(s, s.ledCount, numleds)
                                      EXCEPT !.ledCount = numleds],
                                  IF numleds > s.ledCount THEN "hb_append"
                                  ELSE "hb_shrink")
                        ELSE Path(s, "hb_same")
         IN [AliveBlink(s1) EXCEPT !.heartbeat = HeartbeatReload]

\* static_cast<LedStates>(int): the integer is stored as it is
CastLedState(v) == v

\* a store through LED& led = leds_.getReference(ledIndex)
StoreLed(s, ledIndex, on, timer, state) ==
    IF InRegistry(s, ledIndex)
    THEN [s EXCEPT !.leds[ledIndex + 1].on = on,
                   !.leds[ledIndex + 1].timer = timer,
                   !.leds[ledIndex + 1].state = state,
                   !.touched = @ \cup {ledIndex}]
    ELSE [s EXCEPT !.oob = TRUE]

\* updateLedState(led) through the reference; outside the array on_ is the
\* value just stored and index_ is whatever the memory holds (g)
UpdateLedRef(s, ledIndex, on, g) ==
    IF InRegistry(s, ledIndex) THEN updateLedState(s, ledIndex)
    ELSE RawMidiWrite(s, IF on THEN CC_LED_ON ELSE CC_LED_OFF,
                      ledNumber(g), ledIndex)

LedIndexUpToCount(ledIndex, count) == ~(ledIndex < 0 \/ ledIndex > count)
LedIndexInRange(ledIndex, count) == ~(ledIndex < 0 \/ ledIndex >= count)

handleLedMessage(s, msg, ph, g) ==
    IF Len(msg) = 0 THEN Path(s, "empty")
    ELSE IF msg[1].t # "i" THEN Path(s, "led_bad0")
    ELSE LET ledIndex == msg[1].v
             cur == IF InRegistry(s, ledIndex) THEN s.leds[ledIndex + 1]
                    ELSE NewLed(g)
             a1 == ArgAt(msg, ph, 1)
             a2 == ArgAt(msg, ph, 2)
             a3 == ArgAt(msg, ph, 3)
         IN IF ~LedIndexInRange(ledIndex, s.ledCount)
            THEN Path(s, "led_range")
            ELSE IF a1.t # "i" THEN Path(s, "led_bad1")
            ELSE IF a2.t # "i"
            THEN Path(StoreLed(s, ledIndex, a1.v # 0, cur.timer, cur.state),
                      "led_bad2")
            ELSE IF a3.t # "i"
            THEN Path(StoreLed(s, ledIndex, a1.v # 0, a2.v, cur.state),
                      "led_bad3")
            ELSE LET s1 == StoreLed(s, ledIndex, a1.v # 0, a2.v,
                                    CastLedState(a3.v))
                     s2 == UpdateLedRef(s1, ledIndex, a1.v # 0, g)
                 IN Path([s2 EXCEPT !.heartbeat = HeartbeatReload], "led_ok")

\* selectedLoop = arg->getInt32() + 1
SelectedLoopZeroBased(v) == v
SelectedLoop(v) == v + 1

handleDisplayMessage(s, msg) ==
    IF Len(msg) = 0 THEN Path(s, "empty")
    ELSE IF msg[1].t # "i" THEN Path(s, "display_bad")
    ELSE LET selectedLoop == SelectedLoop(msg[1].v)
             s1 == IF CDiv(selectedLoop, 10) > 0
                   THEN RawMidiWrite(s, CC_TENS,
                                     UChar(CDiv(selectedLoop, 10)), -1)
                   ELSE RawMidiWrite(s, CC_TENS, 0, -1)
         IN Path(RawMidiWrite(s1, CC_ONES, UChar(CRem(selectedLoop, 10)), -1),
                 "display_ok")

----------------------------------------------------------------------------
(* Inputs.  A run explores one part of the input space: "link" varies the  *)
(* configuration commands, the outcomes of open/connect/bind and the       *)
(* indeterminate heartbeat_ and pinged_; "led" varies the /led payloads;   *)
(* "session" varies the /pingack and /heartbeat payloads and the           *)
(* indeterminate ledCount_ and engineId_.                                  *)

Scopes == {"link", "led", "session", "display", "wiring", "anim"}

\* indeterminate first values of the members the constructor leaves alone
GarbageHeartbeats(sc) ==
    IF sc = "link" THEN {-MaxGarbage, 0, MaxGarbage} ELSE {0}
GarbagePinged(sc) == IF sc = "link" THEN BOOLEAN ELSE {FALSE}
GarbageCounts(sc) ==
    IF sc = "session" THEN {0, NUM_LED_PEDALS + 1}
    ELSE IF sc \in {"led", "anim"} THEN {NUM_LED_PEDALS}
    ELSE {0}
GarbageIds(sc) == {1}

\* outcomes of snd_rawmidi_open, oscSender.connect and oscReceiver.connect
OpenOutcomes(sc) == IF sc = "session" THEN {TRUE} ELSE BOOLEAN
NetOutcomes(sc) == IF sc \in {"link", "anim"} THEN BOOLEAN ELSE {TRUE}

\* port numbers given to "oout" and "oin" (asPortNumber yields 0..65535)
SendPortArgs(sc) ==
    IF sc = "link" THEN {0, DefaultSendPort} ELSE {DefaultSendPort}
ReceivePortArgs(sc) ==
    IF sc = "link" THEN {0, DefaultReceivePort} ELSE {DefaultReceivePort}

CountArgs == -1..MaxCount
IdArgs == 1..MaxId
SeedArgs == 0..MaxSeed
StateArgs == 0..MaxStateArg

\* /pingack and /heartbeat carry (string host, string version, int32
\* ledCount, int32 engineId); the other shapes are malformed messages
SessionMsgs(sc) ==
    IF sc = "session"
    THEN {<<S, S, I(k), I(id)>> : k \in CountArgs, id \in IdArgs}
         \cup {<<>>, <<S, S>>, <<S, S, I(MaxCount)>>, <<S, S, F, I(1)>>,
               <<S, S, I(MaxCount), F>>, <<S, S, I(MaxCount), I(MaxId), S>>}
    ELSE IF sc = "led" THEN {<<S, S, I(MaxCount), I(1)>>}
    ELSE {<<S, S, I(0), I(1)>>}

\* /led carries (int32 index, int32 onFlag, int32 blinkSeed, int32 state)
LedIndexArgs(sc) ==
    IF sc = "led" THEN -1..MaxLedArg
    ELSE IF sc = "session" THEN {-1, 0, NUM_LED_PEDALS}
    ELSE {0}

WellFormedLedMsgs(sc) ==
    IF sc = "led"
    THEN {<<I(i), I(on), I(seed), I(st)>> :
            i \in LedIndexArgs(sc), on \in {0, 1}, seed \in SeedArgs,
            st \in StateArgs}
    ELSE IF sc = "anim"
    THEN {<<I(i), I(1), I(seed), I(st)>> :
            i \in {0, 1}, seed \in SeedArgs,
            st \in {Light, Blink, FastBlink, FastBlink + 1}}
    ELSE {<<I(i), I(1), I(0), I(Light)>> : i \in LedIndexArgs(sc)}

\* a wrong type at each argument position, and messages that end early
MalformedLedMsgs(sc) ==
    IF sc \in {"link", "anim"} THEN {}
    ELSE {<<>>, <<F, I(1), I(0), I(Blink)>>,
          <<I(0)>>, <<I(0), I(1)>>, <<I(0), I(1), I(MaxSeed)>>}
         \cup UNION {{<<I(i), F, I(0), I(Blink)>>,
                      <<I(i), I(1), F, I(Blink)>>,
                      <<I(i), I(1), I(MaxSeed), F>>}
                     : i \in LedIndexArgs(sc)}

LedMsgs(sc) == WellFormedLedMsgs(sc) \cup MalformedLedMsgs(sc)

\* what a read past the end of the argument array can yield
PhantomArgs == {F, I(1)}
PhantomReads(msg) ==
    {ph \in [1..3 -> PhantomArgs] :
        \A k \in 1..3 : (k < Len(msg) \/ Len(msg) = 0) => ph[k] = F}

\* what index_ holds in the memory behind the array
GarbageIndexes(s, msg) ==
    IF Len(msg) > 0 /\ msg[1].t = "i" /\ msg[1].v >= Len(s.leds)
    THEN {0, NUM_LED_PEDALS} ELSE {0}

\* two numbers a and b handed to pedalIndex or ledNumber; ra and rb are
\* the results, op names the function applied
NoWiring == [a |-> 0, b |-> 0, op |-> "none", ra |-> 0, rb |-> 0]
WiringInputs(sc) ==
    IF sc = "wiring"
    THEN {[NoWiring EXCEPT !.a = a, !.b = b] :
            a \in 0..MaxSlot, b \in 0..MaxSlot}
    ELSE {NoWiring}

\* /display carries (int32 loopIndex)
DisplayMsgs(sc) ==
    IF sc = "link" THEN {<<I(11)>>}
    ELSE IF sc = "display"
    THEN {<<I(i)>> : i \in 0..MaxLoop} \cup {<<I(11), I(0)>>, <<F>>, <<>>}
    ELSE {<<I(0)>>, <<I(11)>>, <<F>>, <<>>}

----------------------------------------------------------------------------
(* Observers *)

NoHist == [since |-> -1, gap |-> -1]
NoUpd == [pos |-> -1, ticks |-> 0, log |-> <<>>]

\* per position: `since' counts the animation ticks since the position's
\* toggle rule last fired, `gap' is the distance between its last two
\* firings; both are forgotten when the LED is stored to or replaced
NextBlinkHist(s) ==
    [p \in 1..Len(s.leds) |->
        IF s.rebuilt \/ p > Len(blinkHist) \/ (p - 1) \in s.touched
        THEN NoHist
        ELSE IF ~s.animated THEN blinkHist[p]
        ELSE IF (p - 1) \in s.fired
        THEN [since |-> 0,
              gap |-> IF blinkHist[p].since >= 0
                      THEN blinkHist[p].since + 1 ELSE -1]
        ELSE IF blinkHist[p].since >= 0 /\ blinkHist[p].since < MaxSilent
        THEN [blinkHist[p] EXCEPT !.since = @ + 1]
        ELSE blinkHist[p]]

RECURSIVE WritesBy(_, _, _)
WritesBy(writes, pos, tick) ==
    IF writes = <<>> THEN <<>>
    ELSE (IF Head(writes).by = pos
          THEN <<[tick |-> tick, cc |-> Head(writes).cc]>> ELSE <<>>)
         \o WritesBy(Tail(writes), pos, tick)

RECURSIVE CountOf(_, _)
CountOf(seq, what) ==
    IF seq = <<>> THEN 0
    ELSE (IF Head(seq) = what THEN 1 ELSE 0) + CountOf(Tail(seq), what)

Commit(s) ==
    /\ leds' = s.leds
    /\ ledCount' = s.ledCount
    /\ engineId' = s.engineId
    /\ heartbeat' = s.heartbeat
    /\ heartbeatOn' = s.heartbeatOn
    /\ pinged' = s.pinged
    /\ currentSendPort' = s.currentSendPort
    /\ currentReceivePort' = s.currentReceivePort
    /\ oscSendPort' = s.oscSendPort
    /\ oscReceivePort' = s.oscReceivePort
    /\ midiOutName' = s.midiOutName
    /\ midiOut' = s.midiOut
    /\ listening' = s.listening
    /\ oob' = s.oob
    /\ midiWrites' = s.midiWrites
    /\ oscSent' = s.oscSent
    /\ last' = s.path
    /\ blinkHist' = NextBlinkHist(s)
    /\ UNCHANGED <<scope, pc, wiring>>

\* a callback that is no tick: inbound traffic ends a silent run
CommitMessage(s, newUpd) ==
    /\ grown' = IF s.rebuilt THEN 0 ELSE grown + (Len(s.leds) - Len(leds))
    /\ grown' <= MaxGrown
    /\ Commit(s)
    /\ silent' = -1
    /\ probes' = 0
    /\ tornAt' = -1
    /\ upd' = newUpd

CommitTick(s) ==
    /\ Commit(s)
    /\ IF s.fresh
       THEN silent' = 0 /\ probes' = 0 /\ tornAt' = -1
       ELSE IF silent >= 0 /\ silent < MaxSilent
       THEN /\ silent' = silent + 1
            /\ probes' = probes + CountOf(s.oscSent, "/loop4r/ping /heartbeat")
            /\ tornAt' = IF s.torn /\ tornAt = -1 THEN silent + 1 ELSE tornAt
       ELSE UNCHANGED <<silent, probes, tornAt>>
    /\ upd' = IF upd.pos >= 0 /\ upd.ticks < 3 /\ s.animated /\ ~s.opened
              THEN [upd EXCEPT !.ticks = @ + 1,
                               !.log = @ \o WritesBy(s.midiWrites, upd.pos,
                                                     upd.ticks + 1)]
              ELSE NoUpd
    /\ UNCHANGED grown

CommitCommand(s) ==
    /\ Commit(s)
    /\ UNCHANGED <<grown, silent, probes, tornAt, upd>>

----------------------------------------------------------------------------
(* Actions *)

Init ==
    /\ scope \in Scopes
    /\ grown = 0
    /\ pc = "init"
    /\ leds = InitialLeds
    /\ ledCount \in GarbageCounts(scope)
    /\ engineId \in GarbageIds(scope)
    /\ heartbeat \in GarbageHeartbeats(scope)
    /\ heartbeatOn = FALSE
    /\ pinged \in GarbagePinged(scope)
    /\ currentSendPort = Unbound
    /\ currentReceivePort = Unbound
    /\ oscSendPort = DefaultSendPort
    /\ oscReceivePort = DefaultReceivePort
    /\ midiOutName = ""
    /\ midiOut = FALSE
    /\ listening = FALSE
    /\ oob = FALSE
    /\ midiWrites = <<>>
    /\ oscSent = <<>>
    /\ last = "none"
    /\ silent = -1
    /\ probes = 0
    /\ tornAt = -1
    /\ blinkHist = [p \in 1..NUM_LED_PEDALS |-> NoHist]
    /\ upd = NoUpd
    /\ wiring \in WiringInputs(scope)

\* executeCommand, case DEVICE_OUT
CmdDeviceOut ==
    /\ pc = "init"
    /\ \E openOk \in OpenOutcomes(scope) :
        CommitCommand(Path(OpenMidiOut(
            [Self EXCEPT !.midiOut = FALSE, !.midiOutName = "dev"], openOk),
            "cmd_dout"))

\* executeCommand, case OSC_OUT
CmdOscOut ==
    /\ pc = "init"
    /\ \E port \in SendPortArgs(scope), sendOk \in NetOutcomes(scope) :
        CommitCommand(Path(
            [Self EXCEPT !.oscSendPort = port,
                         !.currentSendPort = IF sendOk THEN port ELSE @],
            "cmd_oout"))

\* executeCommand, case OSC_IN
CmdOscIn ==
    /\ pc = "init"
    /\ \E port \in ReceivePortArgs(scope), sendOk \in NetOutcomes(scope),
          bindOk \in NetOutcomes(scope) :
        CommitCommand(Path(
            tryToConnectOsc([Self EXCEPT !.oscReceivePort = port],
                            sendOk, bindOk),
            "cmd_oin"))

\* initialise(): startTimer(200)
StartTimer ==
    /\ pc = "init"
    /\ pc' = "run"
    /\ last' = "start"
    /\ midiWrites' = <<>>
    /\ oscSent' = <<>>
    /\ UNCHANGED <<scope, grown, progVars, silent, probes, tornAt, blinkHist,
                   upd, wiring>>

Tick ==
    /\ pc = "run"
    /\ \E openOk \in OpenOutcomes(scope), sendOk \in NetOutcomes(scope),
          bindOk \in NetOutcomes(scope) :
        CommitTick(timerCallback(Self, openOk, sendOk, bindOk))

\* oscMessageReceived dispatches on the address pattern
RecvPingAck(msg) ==
    /\ pc = "run" /\ listening
    /\ CommitMessage(handlePingAckMessage(Self, msg), NoUpd)

RecvHeartbeat(msg) ==
    /\ pc = "run" /\ listening
    /\ CommitMessage(handleHeartbeatMessage(Self, msg), NoUpd)

\* the LED-update the observer `upd' follows: on, seed 0, Blink, stored
StartsBlinkScenario(s, msg) ==
    /\ Len(msg) = 4
    /\ s.path = "led_ok"
    /\ InRegistry(s, msg[1].v)
    /\ msg[2].v = 1 /\ msg[3].v = 0 /\ msg[4].v = Blink

RecvLed(msg) ==
    /\ pc = "run" /\ listening
    /\ \E ph \in PhantomReads(msg), g \in GarbageIndexes(Self, msg) :
        LET s == handleLedMessage(Self, msg, ph, g)
        IN CommitMessage(s,
              IF StartsBlinkScenario(s, msg)
              THEN [pos |-> msg[1].v, ticks |-> 0,
                    log |-> WritesBy(s.midiWrites, msg[1].v, 0)]
              ELSE NoUpd)

RecvDisplay(msg) ==
    /\ pc = "run" /\ listening
    /\ CommitMessage(handleDisplayMessage(Self, msg), NoUpd)

Next ==
    \/ CmdDeviceOut
    \/ CmdOscOut
    \/ CmdOscIn
    \/ StartTimer
    \/ Tick
    \/ \E msg \in SessionMsgs(scope) : RecvPingAck(msg)
    \/ \E msg \in SessionMsgs(scope) : RecvHeartbeat(msg)
    \/ \E msg \in LedMsgs(scope) : RecvLed(msg)
    \/ \E msg \in DisplayMsgs(scope) : RecvDisplay(msg)

Spec == Init /\ [][Next]_vars
InitLink == Init /\ scope = "link"
InitLed == Init /\ scope = "led"
InitSession == Init /\ scope = "session"

SpecLink == InitLink /\ [][Next]_vars
SpecLed == InitLed /\ [][Next]_vars

\* the session tracker alone: the receiver is bound by "oin" and the
\* messages arrive before the first tick
NextSession ==
    \/ CmdOscIn
    \/ StartTimer
    \/ \E msg \in SessionMsgs(scope) : RecvPingAck(msg)
    \/ \E msg \in SessionMsgs(scope) : RecvHeartbeat(msg)
    \/ \E msg \in LedMsgs(scope) : RecvLed(msg)

SpecSession == InitSession /\ [][NextSession]_vars

\* the animation under failing connects
InitAnim == Init /\ scope = "anim"

NextAnim ==
    \/ CmdDeviceOut
    \/ CmdOscIn
    \/ StartTimer
    \/ Tick
    \/ \E msg \in LedMsgs(scope) : RecvLed(msg)

SpecAnim == InitAnim /\ [][NextAnim]_vars

\* pedalIndex and ledNumber alone
ApplyPedalIndex ==
    /\ wiring.op = "none"
    /\ wiring' = [wiring EXCEPT !.op = "pedalIndex",
                                !.ra = pedalIndex(wiring.a),
                                !.rb = pedalIndex(wiring.b)]
    /\ UNCHANGED <<scope, grown, pc, progVars, midiWrites, oscSent, last,
                   silent, probes, tornAt, blinkHist, upd>>

ApplyLedNumber ==
    /\ wiring.op = "none"
    /\ wiring' = [wiring EXCEPT !.op = "ledNumber",
                                !.ra = ledNumber(wiring.a),
                                !.rb = ledNumber(wiring.b)]
    /\ UNCHANGED <<scope, grown, pc, progVars, midiWrites, oscSent, last,
                   silent, probes, tornAt, blinkHist, upd>>

\* the other function applied to the results
ApplyInverse ==
    /\ wiring.op \in {"pedalIndex", "ledNumber"}
    /\ wiring' =
          IF wiring.op = "pedalIndex"
          THEN [wiring EXCEPT !.op = "ledNumber of pedalIndex",
                              !.ra = ledNumber(wiring.ra),
                              !.rb = ledNumber(wiring.rb)]
          ELSE [wiring EXCEPT !.op = "pedalIndex of ledNumber",
                              !.ra = pedalIndex(wiring.ra),
                              !.rb = pedalIndex(wiring.rb)]
    /\ UNCHANGED <<scope, grown, pc, progVars, midiWrites, oscSent, last,
                   silent, probes, tornAt, blinkHist, upd>>

InitWiring == Init /\ scope = "wiring"
NextWiring == ApplyPedalIndex \/ ApplyLedNumber \/ ApplyInverse
SpecWiring == InitWiring /\ [][NextWiring]_vars

\* the display driver alone
InitDisplay == Init /\ scope = "display"

NextDisplay ==
    \/ CmdDeviceOut
    \/ CmdOscIn
    \/ StartTimer
    \/ Tick
    \/ \E msg \in DisplayMsgs(scope) : RecvDisplay(msg)

SpecDisplay == InitDisplay /\ [][NextDisplay]_vars

----------------------------------------------------------------------------
(* Properties of the link supervision (SpecLink) *)

\* a message can be delivered: the timer runs and the receiver is bound
Deliverable == pc = "run" /\ listening

PingsIn(sent) == CountOf(sent, "/loop4r/ping /heartbeat")

TickPaths == {"tick_connected", "tick_unconnected", "tick_ping",
              "tick_reconnected", "tick_torn", "tick_dec"}

\* neither endpoint is marked unbound
LinkUp == currentSendPort >= 0 /\ currentReceivePort >= 0

\* C1, as the specification states it: in a run of ticks without inbound
\* traffic after a fresh connect the countdown keeps falling by one per
\* tick below 0 (5 - n after tick n, so -6 after tick 11 at the latest),
\* and by the twelfth silent tick the link has been torn down on the tick
\* that first saw the countdown below -5.
C1_SilentLinkTornDown ==
    /\ (silent >= 6 /\ silent <= 11 /\ tornAt = -1) => heartbeat = 5 - silent
    /\ silent >= 12 => tornAt \in {11, 12}

\* C2, as the specification states it: every non-empty /pingack,
\* /heartbeat, /led and /display message leaves the countdown at 5
\* (looked at for the first message after a connect and at least one
\* silent tick, when the countdown has been assigned).
C2_EveryMessageResets ==
    [][\A msg \in SessionMsgs(scope) \cup LedMsgs(scope) \cup DisplayMsgs(scope) :
         (/\ Len(msg) > 0
          /\ silent >= 1
          /\ \/ RecvPingAck(msg) \/ RecvHeartbeat(msg)
             \/ RecvLed(msg) \/ RecvDisplay(msg))
         => heartbeat' = 5]_vars

\* C7: the tick that establishes the connection leaves the countdown at 5,
\* and each of the next five ticks without inbound traffic lowers it by
\* exactly one: 5, 4, 3, 2, 1, 0.
C7_CountdownFromFive ==
    (silent >= 0 /\ silent <= 5) => (heartbeat = 5 - silent /\ LinkUp)

C7_Witness == silent = 5 /\ heartbeat = 0 /\ last = "tick_dec"

\* C8: a tick sends the /heartbeat ping exactly when both endpoints are
\* bound and the countdown is 0 when the tick starts, it sends one, and
\* the countdown is still 0 after it; the six silent ticks after a fresh
\* connect send one ping in all, on the sixth (tick index 5).
C8_PingStep ==
    last' \in TickPaths =>
        /\ PingsIn(oscSent') = IF LinkUp /\ heartbeat = 0 THEN 1 ELSE 0
        /\ PingsIn(oscSent') = 1 => heartbeat' = 0

C8_PingOnlyAtZero ==
    /\ [][C8_PingStep]_vars
    /\ []((silent >= 0 /\ silent <= 5) => probes = 0)
    /\ [](silent = 6 => (probes = 1 /\ last = "tick_ping"))

C8_Witness == silent = 6 /\ probes = 1 /\ last = "tick_ping" /\ heartbeat = 0

----------------------------------------------------------------------------
(* Properties of the /led handler and the session tracker (SpecSession) *)

\* C5, as the specification states it: a /led message with an argument of
\* the wrong type, or with fewer than four arguments, changes no field of
\* any LED and issues no hardware write (looked at for a registry that
\* holds ledCount LEDs).
C5_MalformedLedDropped ==
    [][\A msg \in MalformedLedMsgs(scope) :
         (Len(leds) = ledCount /\ RecvLed(msg))
         => (leds' = leds /\ midiWrites' = <<>>)]_vars

\* the /led messages whose index lies outside [0, ledCount)
OutOfRangeLedMsgs ==
    {msg \in LedMsgs(scope) :
        /\ Len(msg) > 0 /\ msg[1].t = "i"
        /\ (msg[1].v < 0 \/ msg[1].v >= ledCount)}

\* C6: in every reachable state, handling a /led message whose index is
\* below 0 or not below ledCount leaves the registry and every LED field
\* as they are, touches no memory outside the registry and issues no
\* hardware write, whatever the rest of the payload is.
C6_OutOfRangeLedDropped ==
    Deliverable =>
        \A msg \in OutOfRangeLedMsgs :
            \A ph \in PhantomReads(msg), g \in GarbageIndexes(Self, msg) :
                LET s == handleLedMessage(Self, msg, ph, g)
                IN /\ s.leds = leds
                   /\ s.ledCount = ledCount
                   /\ s.midiWrites = <<>>
                   /\ ~s.oob

C6_Witness ==
    /\ last = "led_range" /\ midiWrites = <<>>
    /\ ledCount > 0 /\ Len(leds) = ledCount

\* K cleared LEDs with the indexes 0..K-1
FreshRegistry(K) ==
    [p \in 1..K |-> [index |-> p - 1, on |-> FALSE, timer |-> 0, state |-> 0]]

\* getCurrentState calls, counted by their first send
ResyncsIn(sent) == CountOf(sent, "/loop4r/leds")

ReportsCount(msg) == Len(msg) >= 3 /\ msg[3].t = "i" /\ msg[3].v > 0
ReportsOtherEngine(msg) ==
    Len(msg) >= 4 /\ msg[4].t = "i" /\ msg[4].v # engineId

\* C9: in every reachable state, a /heartbeat that carries another engine
\* id than the tracked one and a count K > 0, and a /pingack (of at most
\* four arguments) that carries a count K > 0, leave the registry as
\* exactly K cleared Dark LEDs with the indexes 0..K-1 and issue exactly K
\* current-state requests.
C9_RebuildGivesFreshRegistry ==
    Deliverable =>
        \A msg \in SessionMsgs(scope) :
            /\ (ReportsCount(msg) /\ ReportsOtherEngine(msg)) =>
                 LET s == handleHeartbeatMessage(Self, msg)
                 IN /\ s.leds = FreshRegistry(msg[3].v)
                    /\ ResyncsIn(s.oscSent) = msg[3].v
            /\ (ReportsCount(msg) /\ Len(msg) <= 4) =>
                 LET s == handlePingAckMessage(Self, msg)
                 IN /\ s.leds = FreshRegistry(msg[3].v)
                    /\ ResyncsIn(s.oscSent) = msg[3].v

C9_Witness ==
    /\ last \in {"hb_rebuild", "pingack_rebuild"}
    /\ Len(leds) = 2 /\ ledCount = 2
    /\ ResyncsIn(oscSent) = 2

\* the count and the engine id a /heartbeat is read as
HeartbeatCount(msg) == IF IsInt32At(msg, 2) THEN msg[3].v ELSE 0
HeartbeatEngine(msg) == IF IsInt32At(msg, 3) THEN msg[4].v ELSE engineId

\* C10: in every reachable state, a /heartbeat with the tracked engine id
\* and a count N above the tracked count M leaves the registry as the old
\* registry, entry by entry, followed by N - M cleared Dark LEDs with the
\* indexes M..N-1.
C10_GrowthAppends ==
    Deliverable =>
        \A msg \in SessionMsgs(scope) :
            (/\ Len(msg) > 0
             /\ HeartbeatEngine(msg) = engineId
             /\ HeartbeatCount(msg) > ledCount) =>
                LET s == handleHeartbeatMessage(Self, msg)
                    added == HeartbeatCount(msg) - ledCount
                IN /\ Len(s.leds) = Len(leds) + added
                   /\ SubSeq(s.leds, 1, Len(leds)) = leds
                   /\ \A j \in 1..added :
                        s.leds[Len(leds) + j] =
                            [index |-> ledCount + j - 1, on |-> FALSE,
                             timer |-> 0, state |-> 0]
                   /\ s.ledCount = HeartbeatCount(msg)

C10_Witness ==
    /\ last = "hb_append" /\ grown > 0
    /\ Len(leds) > grown
    /\ leds[Len(leds)] = [index |-> ledCount - 1, on |-> FALSE,
                          timer |-> 0, state |-> 0]

----------------------------------------------------------------------------
(* Properties of the blink animation (SpecLed) *)

\* C3, as the specification states it: between two LED-updates the toggle
\* rule of a Blink LED fires every 3 ticks and that of a FastBlink LED on
\* every tick.
C3_TogglePeriodAsStated ==
    \A p \in 1..Len(leds) :
        /\ (leds[p].state = Blink /\ blinkHist[p].gap >= 0)
              => blinkHist[p].gap = 3
        /\ (leds[p].state = FastBlink /\ blinkHist[p].gap >= 0)
              => blinkHist[p].gap = 1

\* C3, amended: while an LED stays in Blink with no LED-update or rebuild
\* in between and the ticks animate, two consecutive firings of its toggle
\* rule are exactly 4 ticks apart (the timer is reloaded with 3 and
\* counted down on three ticks; the rule fires on the fourth); in
\* FastBlink they are exactly 2 ticks apart.  After a firing the timer
\* holds the reload less the ticks since.
C3_TogglePeriod ==
    \A p \in 1..Len(leds) :
        /\ (leds[p].state = Blink /\ blinkHist[p].since >= 0) =>
              /\ blinkHist[p].gap \in {-1, 4}
              /\ blinkHist[p].since <= 3
              /\ leds[p].timer = 3 - blinkHist[p].since
        /\ (leds[p].state = FastBlink /\ blinkHist[p].since >= 0) =>
              /\ blinkHist[p].gap \in {-1, 2}
              /\ blinkHist[p].since <= 1
              /\ leds[p].timer = 1 - blinkHist[p].since

C3_Witness ==
    \E p \in 1..Len(leds) :
        /\ leds[p].state = Blink
        /\ blinkHist[p].gap = 4 /\ blinkHist[p].since = 0
        /\ last \in TickPaths

\* C4, as the specification states it: after a /led (on, seed 0, Blink)
\* and three animating ticks the writes for that LED are the on write of
\* the update and one off write on the third tick.
C4_ToggleOnThirdTick ==
    (upd.pos >= 0 /\ upd.ticks = 3) =>
        upd.log = <<[tick |-> 0, cc |-> 106], [tick |-> 3, cc |-> 107]>>

\* C4, amended: after a /led (on, seed 0, Blink) for an LED of the
\* registry, followed by up to three animating ticks with no message and
\* no opening of the device, the writes for that LED are the on write of
\* the update and one off write on the first tick; the second and third
\* tick write nothing for it.
C4_ToggleOnFirstTick ==
    upd.pos >= 0 =>
        upd.log = IF upd.ticks = 0
                  THEN <<[tick |-> 0, cc |-> 106]>>
                  ELSE <<[tick |-> 0, cc |-> 106], [tick |-> 1, cc |-> 107]>>

C4_Witness ==
    /\ upd.pos >= 0 /\ upd.ticks = 3 /\ Len(upd.log) = 2
    /\ last \in TickPaths
    /\ leds[upd.pos + 1].state = Blink /\ ~leds[upd.pos + 1].on

----------------------------------------------------------------------------
(* Properties of single callbacks *)

\* the /led messages of four int32 arguments whose index is in [0, ledCount)
ValidLedMsgs ==
    {msg \in WellFormedLedMsgs(scope) :
        msg[1].v >= 0 /\ msg[1].v < ledCount}

\* the effect of a valid /led message on the registry `before': the entry
\* at the index takes the three fields of the message, the others stay
LedStored(before, after, msg) ==
    LET idx == msg[1].v
    IN /\ idx < Len(before)
       /\ Len(after) = Len(before)
       /\ after[idx + 1] = [index |-> before[idx + 1].index,
                            on |-> msg[2].v # 0,
                            timer |-> msg[3].v,
                            state |-> msg[4].v]
       /\ \A p \in 1..Len(before) : p # idx + 1 => after[p] = before[p]

\* the one write a valid /led message issues: for the entry at the index,
\* on (cc 106) or off (cc 107) as the on flag says, to the slot of the
\* entry's index_
LedWritten(before, writes, msg) ==
    LET idx == msg[1].v
    IN /\ idx < Len(before)
       /\ Len(writes) = 1
       /\ writes[1].by = idx
       /\ writes[1].cc = IF msg[2].v # 0 THEN 106 ELSE 107
       /\ writes[1].val = ledNumber(before[idx + 1].index)

\* C11, as the specification states it: a /led message of four int32
\* arguments with an index in [0, ledCount) stores the on flag, the seed
\* and the state in the LED at that index, issues exactly one write for
\* it, and changes no other LED.
C11_ValidLedUpdateStored ==
    [][\A msg \in ValidLedMsgs :
         RecvLed(msg) =>
            (LedStored(leds, leds', msg) /\ LedWritten(leds, midiWrites', msg))
      ]_vars

\* what holds of the code: the same, for an index that is also inside the
\* registry
C11_StoredInsideRegistry ==
    Deliverable =>
        \A msg \in ValidLedMsgs :
            msg[1].v < Len(leds) =>
                \A ph \in PhantomReads(msg), g \in GarbageIndexes(Self, msg) :
                    LET s == handleLedMessage(Self, msg, ph, g)
                    IN /\ LedStored(leds, s.leds, msg)
                       /\ LedWritten(leds, s.midiWrites, msg)
                       /\ ~s.oob

\* the members of the object, without the outputs of the callback
Stored(s) ==
    <<s.leds, s.ledCount, s.engineId, s.heartbeat, s.heartbeatOn, s.pinged,
      s.currentSendPort, s.currentReceivePort, s.oscSendPort,
      s.oscReceivePort, s.midiOutName, s.midiOut, s.listening>>

\* C12: in every reachable state, a /display message whose first argument
\* is the int32 i >= 0 issues exactly two writes, first cc 113 with
\* (i + 1) div 10, then cc 114 with (i + 1) mod 10; for i in 0..98 both
\* values are decimal digits; no member of the object changes and no OSC
\* message is sent.
C12_DisplayDigits ==
    Deliverable =>
        \A msg \in DisplayMsgs(scope) :
            (Len(msg) > 0 /\ msg[1].t = "i" /\ msg[1].v >= 0) =>
                LET i == msg[1].v
                    s == handleDisplayMessage(Self, msg)
                IN /\ Len(s.midiWrites) = 2
                   /\ s.midiWrites[1].cc = 113
                   /\ s.midiWrites[1].val = (i + 1) \div 10
                   /\ s.midiWrites[2].cc = 114
                   /\ s.midiWrites[2].val = (i + 1) % 10
                   /\ i <= 98 => /\ s.midiWrites[1].val \in 0..9
                                 /\ s.midiWrites[2].val \in 0..9
                   /\ i = 11 => /\ s.midiWrites[1].val = 1
                                /\ s.midiWrites[2].val = 2
                   /\ Stored(s) = Stored(Self)
                   /\ s.oscSent = <<>>

C12_Witness ==
    /\ last = "display_ok"
    /\ Len(midiWrites) = 2
    /\ midiWrites[1].cc = 113 /\ midiWrites[1].val = 9
    /\ midiWrites[2].cc = 114 /\ midiWrites[2].val = 9
    /\ midiWrites[1].open

----------------------------------------------------------------------------
(* Properties of the connection retry (SpecLink) *)

\* the timer runs, an endpoint is unbound, the configured ports are in
\* 1..65535 and the send endpoint is not bound to port 0
AwaitingConnect ==
    /\ pc = "run"
    /\ currentSendPort < 0 \/ currentReceivePort < 0
    /\ oscSendPort > 0 /\ oscReceivePort > 0
    /\ currentSendPort # 0

\* a tick that starts with an endpoint unbound takes the connect branch;
\* each endpoint is afterwards what it was or the configured port, an
\* endpoint that was unbound and did not connect is still -1, the timer
\* keeps running, and the countdown is set to 5 by this tick exactly when
\* both ports are then above 0
C13_RetryStep ==
    (last' \in TickPaths /\ (currentSendPort < 0 \/ currentReceivePort < 0)) =>
        /\ last' \in {"tick_connected", "tick_unconnected"}
        /\ currentSendPort' \in {currentSendPort, oscSendPort}
        /\ currentReceivePort' \in {currentReceivePort, oscReceivePort}
        /\ pc' = "run"
        /\ last' = "tick_connected" <=>
              (currentSendPort' > 0 /\ currentReceivePort' > 0)
        /\ last' = "tick_connected" => heartbeat' = 5
        /\ last' = "tick_unconnected" => heartbeat' = heartbeat

\* C13: while an endpoint is unbound every tick tries to connect, a failed
\* bind leaves the endpoint at -1 and the timer running; a link that awaits
\* its connection (configured ports in 1..65535) keeps awaiting it under
\* every step until both ports are above 0, and in every such state a tick
\* whose connects succeed leaves both ports above 0 and the countdown at 5.
\* So once the connects succeed on some tick the link is up.
C13_RetryUntilUp ==
    /\ [][C13_RetryStep]_vars
    /\ [][AwaitingConnect =>
            \/ AwaitingConnect'
            \/ (currentSendPort' > 0 /\ currentReceivePort' > 0)]_vars
    /\ [](AwaitingConnect =>
            \A openOk \in OpenOutcomes(scope) :
                LET s == timerCallback(Self, openOk, TRUE, TRUE)
                IN /\ s.currentSendPort > 0 /\ s.currentReceivePort > 0
                   /\ s.heartbeat = 5
                   /\ s.listening)

C13_Witness ==
    /\ last = "tick_connected" /\ silent = 0
    /\ currentSendPort > 0 /\ currentReceivePort > 0
    /\ heartbeat = 5

----------------------------------------------------------------------------
(* Properties of the identity probe and the device handle (SpecLink) *)

\* identity probes (reply path /pingack) among the sends of a callback
IdentityProbesIn(sent) == CountOf(sent, "/loop4r/ping /pingack")

\* the callbacks that call tryToConnectOsc
ConnectPaths == {"cmd_oin", "tick_connected", "tick_unconnected",
                 "tick_reconnected", "tick_torn"}

BothBound == currentSendPort > 0 /\ currentReceivePort > 0

\* C14, as the specification states it: the call of tryToConnectOsc that
\* brings both ports above 0 sends exactly one identity probe, a call that
\* leaves a port unbound sends none, and a further call while both ports
\* stay above 0, right after the call that sent the probe, sends none.
C14_ProbeOncePerSession ==
    [][last' \in ConnectPaths =>
         /\ (~BothBound /\ BothBound') => IdentityProbesIn(oscSent') = 1
         /\ ~BothBound' => IdentityProbesIn(oscSent') = 0
         /\ (BothBound /\ BothBound' /\ last = "cmd_oin"
                /\ IdentityProbesIn(oscSent) = 1)
               => IdentityProbesIn(oscSent') = 0]_vars

\* C15, as the specification states it: after a failed open no tick tries
\* to open the device again, so no tick turns a closed handle into an open
\* one.
C15_NoOpenByTick ==
    [][(last' \in TickPaths /\ ~midiOut) => ~midiOut']_vars

\* the ten writes "LED i off" issued after a successful open
PedalLedsOffWrites(writes) ==
    /\ Len(writes) >= 10
    /\ \A i \in 0..9 :
        /\ writes[i + 1].cc = 107
        /\ writes[i + 1].val = ledNumber(i)

\* C15, amended: while a device name is configured and the handle is not
\* open, every tick tries to open the device: when the open succeeds the
\* handle is open after the tick and LEDs 0..9 have been written off, when
\* it fails the handle stays closed and the next tick tries again.  A tick
\* that starts with the handle open, or with no device name, opens
\* nothing and runs the same whatever an open would have returned.
C15_OpenRetriedByTick ==
    pc = "run" =>
        \A sendOk \in NetOutcomes(scope), bindOk \in NetOutcomes(scope) :
            LET ok == timerCallback(Self, TRUE, sendOk, bindOk)
                failed == timerCallback(Self, FALSE, sendOk, bindOk)
            IN IF midiOutName # "" /\ ~midiOut
               THEN /\ ok.midiOut /\ ok.opened
                    /\ PedalLedsOffWrites(ok.midiWrites)
                    /\ ~failed.midiOut /\ ~failed.opened
                    /\ failed.midiOutName = midiOutName
               ELSE /\ ok = failed
                    /\ ~ok.opened
                    /\ ok.midiOut = midiOut

\* a tick has opened the device that executeCommand could not open
C15_Witness ==
    /\ last \in TickPaths
    /\ midiOut /\ midiOutName # ""
    /\ PedalLedsOffWrites(midiWrites)

----------------------------------------------------------------------------
(* Properties of the pedal wiring (SpecWiring) *)

\* the wiring as the specification lists it, for the slots 0..11
WiringTable == <<9, 0, 1, 2, 3, 4, 5, 6, 7, 8, 10, 11>>

\* C16: pedalIndex maps 1..9 to 0..8, 0 to 9, 10 to 10 and 11 to 11 and
\* permutes the numbers it is given; ledNumber undoes it and pedalIndex
\* undoes ledNumber; two different numbers never get the same slot from
\* either function.
C16_WiringPermutation ==
    /\ wiring.op = "pedalIndex" =>
          /\ wiring.a <= 11 => wiring.ra = WiringTable[wiring.a + 1]
          /\ wiring.ra \in 0..MaxSlot
          /\ wiring.a # wiring.b => wiring.ra # wiring.rb
    /\ wiring.op = "ledNumber" =>
          /\ wiring.ra \in 0..MaxSlot
          /\ wiring.a # wiring.b => wiring.ra # wiring.rb
          /\ wiring.ra <= 11 => WiringTable[wiring.ra + 1] = wiring.a
    /\ wiring.op \in {"ledNumber of pedalIndex", "pedalIndex of ledNumber"} =>
          /\ wiring.ra = wiring.a
          /\ wiring.rb = wiring.b

C16_Witness ==
    /\ wiring.op = "ledNumber of pedalIndex"
    /\ wiring.a = 0 /\ wiring.ra = 0
    /\ wiring.b = 9 /\ wiring.rb = 9

----------------------------------------------------------------------------
(* Properties of the animation under the connection state (SpecAnim) *)

Animated(led) == led.state = Blink \/ led.state = FastBlink

\* the timer of an animated LED after one evaluation of its rule
TimerAfterRule(led) ==
    IF led.timer <= 0 THEN (IF led.state = Blink THEN 3 ELSE 1)
    ELSE led.timer - 1

WritesFor(writes, pos) == Len(WritesBy(writes, pos, 0))

\* C17, as the specification states it: every tick, whatever the state of
\* the connection, evaluates the rule once for every LED in Blink or
\* FastBlink.
C17_AnimatedOnEveryTick ==
    [][last' \in TickPaths =>
         \A p \in 1..Len(leds) :
            Animated(leds[p]) => leds'[p].timer = TimerAfterRule(leds[p])]_vars

\* C17, amended: a tick that starts with neither port below 0 evaluates
\* the rule exactly once for every LED in Blink or FastBlink (the timer is
\* reloaded and one toggle write issued when it was <= 0, counted down by
\* one and nothing written otherwise); a tick that starts with a port
\* below 0, the tick that establishes the connection included, evaluates
\* it for no LED: no timer changes and the only writes are the ten of a
\* device that the tick opened.
C17_AnimatedWhenBound ==
    [][last' \in TickPaths =>
         IF LinkUp
         THEN \A p \in 1..Len(leds) :
                Animated(leds[p]) =>
                    /\ leds'[p].timer = TimerAfterRule(leds[p])
                    /\ leds'[p].state = leds[p].state
                    /\ (midiOut \/ midiOutName = "") =>
                          WritesFor(midiWrites', p - 1) =
                              IF leds[p].timer <= 0 THEN 1 ELSE 0
         ELSE /\ \A p \in 1..Len(leds) :
                    /\ leds'[p].timer = leds[p].timer
                    /\ leds'[p].state = leds[p].state
              /\ \/ midiWrites' = <<>>
                 \/ (~midiOut /\ midiOut' /\ Len(midiWrites') = 10
                        /\ PedalLedsOffWrites(midiWrites'))]_vars

\* a tick with a port below 0 has left an expired Blink LED as it was
C17_Witness ==
    /\ last \in {"tick_unconnected", "tick_connected"}
    /\ \E p \in 1..Len(leds) :
        leds[p].state = Blink /\ leds[p].timer <= 0 /\ leds[p].on

\* C18, as the specification states it: a tick changes the state of no
\* LED, and of an LED in Dark or Light neither isOn nor the blink timer.
C18_SteadyLedUntouchedByTick ==
    [][last' \in TickPaths =>
         \A p \in 1..Len(leds) :
            /\ leds'[p].state = leds[p].state
            /\ leds[p].state \in {Dark, Light} =>
                  /\ leds'[p].on = leds[p].on
                  /\ leds'[p].timer = leds[p].timer]_vars

\* The writes of one step issued for registry position pos that carry the
\* given on/off value.
MatchingWrites(writes, pos, on) ==
    SelectSeq(writes,
              LAMBDA w : w.by = pos /\ w.cc = IF on THEN 106 ELSE 107)

\* C19, as the specification states it: no step taken with a registry of
\* the reported size changes isOn of an LED without issuing the write that
\* matches the new value.
C19_IsOnFollowsWrite ==
    [][\A p \in 1..Len(leds) :
          (Len(leds) = ledCount /\ p <= Len(leds')
             /\ leds'[p].on # leds[p].on) =>
              Len(MatchingWrites(midiWrites', p - 1, leds'[p].on)) > 0]_vars

\* C20, as the specification states it: every LED of the registry is in
\* one of the states Dark, Light, Blink, FastBlink.
C20_StateInEnum ==
    \A p \in 1..Len(leds) : leds[p].state \in {0, 1, 2, 3}

\* The paths of handleHeartbeatMessage taken by a non-empty message.
HeartbeatPaths ==
    {"hb_rebuild", "hb_changed", "hb_append", "hb_shrink", "hb_same"}

\* The writes of one step addressed to the alive indicator.
AliveWrites(writes) == SelectSeq(writes, LAMBDA w : w.val = 23)

\* C21: the alive flag starts cleared; every non-empty heartbeat, on each of
\* its paths, issues exactly one write to indicator 23, "on" (106) when the
\* flag is cleared and "off" (107) when it is set, flips the flag and sets
\* the countdown to 5; no other step changes the flag, so consecutive
\* heartbeats alternate, starting with "on".
C21_AliveToggle ==
    /\ heartbeatOn = FALSE
    /\ [][IF last' \in HeartbeatPaths
          THEN /\ Len(AliveWrites(midiWrites')) = 1
               /\ AliveWrites(midiWrites')[1].cc =
                      IF heartbeatOn THEN 107 ELSE 106
               /\ heartbeatOn' = ~heartbeatOn
               /\ heartbeat' = 5
          ELSE heartbeatOn' = heartbeatOn]_vars

C21_Witness ==
    /\ last = "hb_rebuild"
    /\ heartbeatOn = FALSE
    /\ Len(AliveWrites(midiWrites)) = 1
    /\ AliveWrites(midiWrites)[1].cc = 107

\* C22, as the specification states it: once an identity-probe response has
\* set the tracked engine, a heartbeat that reports another engine and a
\* positive count makes that engine the tracked one, so after
\* an LED-update the same heartbeat again is handled as "identity matches"
\* and keeps the LED fields the update has set.
C22_NewIdentityTracked ==
    (Deliverable /\ engineId \notin GarbageIds(scope)) =>
        \A msg \in SessionMsgs(scope) :
            (ReportsCount(msg) /\ ReportsOtherEngine(msg)) =>
                LET s1 == handleHeartbeatMessage(Self, msg)
                    upd1 == <<I(0), I(1), I(0), I(Light)>>
                IN /\ s1.engineId = msg[4].v
                   /\ \A ph \in PhantomReads(upd1),
                         g \in GarbageIndexes(s1, upd1) :
                        LET s2 == handleLedMessage(s1, upd1, ph, g)
                            s3 == handleHeartbeatMessage(s2, msg)
                        IN /\ s3.path = "hb_same"
                           /\ s3.leds = s2.leds

\* The registry r holds exactly n LEDs and the LED at position i has index i.
RegistryMatches(r, n) ==
    /\ Len(r) = n
    /\ \A p \in 1..Len(r) : r[p].index = p - 1

\* C23, as the specification states it: a step that starts with the
\* registry consistent with ledCount ends with ledCount <= 0 or with the
\* registry consistent with the new ledCount.
C23_RegistryConsistent ==
    [][RegistryMatches(leds, ledCount) =>
         (ledCount' > 0 => RegistryMatches(leds', ledCount'))]_vars

\* C24, as the specification states it: every write of the last step was
\* issued with the hardware output handle open.
C24_WritesOnlyWhenOpen ==
    \A i \in 1..Len(midiWrites) : midiWrites[i].open

\* C25, as the specification states it: no step has addressed the registry,
\* through ledOn, ledOff or an LED-update, at an index that is not one of
\* its positions.
C25_LedIndexInsideRegistry == ~oob

====
